---- MODULE Spec2Model ----
(***************************************************************************)
(* finlib: the EKOP probability-of-informed-trading estimator              *)
(* (finlib/pin_measure.py) and the tick-test / Lee-Ready trade classifiers *)
(* (finlib/trade_direction.py).                                            *)
(*                                                                         *)
(* Numbers.  alpha is held as a count of fifths (AlphaDen = 5), so that    *)
(* the initial guess 0.2 is the integer 1 and the upper bound 1 is 5; mu,  *)
(* epsilon_b and epsilon_s are held as non-negative integers.  A PIN value *)
(* is the exact fraction num/den of alpha*mu/(alpha*mu+eb+es) with both    *)
(* sides multiplied by AlphaDen; num = 0, den = 0 is what float64 0.0/0.0  *)
(* gives (NaN, with a RuntimeWarning and no exception).  A returned value  *)
(* has kind "value"; pin_ekop raises no exception of its own.              *)
(*                                                                         *)
(* A negative log-likelihood is held by the sign of what the code computes:*)
(* "zero" is the untouched integer 0 (no period evaluated), "finite" a sum *)
(* of logs of positive mixtures, "inf" a sum holding log(0) = -inf.        *)
(*                                                                         *)
(* scipy.optimize.minimize is library code.  It is modelled by what the    *)
(* caller can observe: it evaluates the objective at x0 first, then at any *)
(* points of the box, and returns any point of the box with any success    *)
(* flag; it is deterministic, so the point it returns for given volume     *)
(* arrays is the same every time (lbfgsb records it).                      *)
(***************************************************************************)
EXTENDS Integers, Sequences, FiniteSets, TLC

VARIABLES
    callers,    \* the threads that call pin_ekop in this behaviour
    pc,         \* per thread: where the thread is inside pin_ekop
    arg,        \* per thread: the <<buys, sells>> the caller passes
    frame,      \* per invocation frame: the locals of pin_ekop
    ret,        \* per thread: what the call handed back to the caller
    lbfgsb,     \* the solver's (deterministic) answers given so far
    prices,     \* trade_direction: transaction prices
    bids,       \* trade_direction: bid quotes
    asks,       \* trade_direction: ask quotes
    dpc,        \* trade_direction: "off", "input", "tick", "leeready"
    direction,  \* trade_direction: the array returned
    raised      \* trade_direction: the exception raised, "none" if none

vars == <<callers, pc, arg, frame, ret, lbfgsb,
          prices, bids, asks, dpc, direction, raised>>

pinVars == <<callers, pc, arg, frame, ret, lbfgsb>>
dirVars == <<prices, bids, asks, dpc, direction, raised>>

----------------------------------------------------------------------------
(* Bounds of the model *)

MaxLen == 2
MaxEvals == 2
MaxTicks == 4
MaxQuotes == 3

(* 0.2 = 1/AlphaDen *)
AlphaDen == 5

\* a period without volume and a period with volume
VolumeLevels == {0, 5}
\* transaction prices, and quotes whose midpoints are those prices
PriceLevels == {100, 101, 102}
QuoteLevels == {100, 102}
\* the threads that may call pin_ekop
Threads == {1, 2}

SeqsUpTo(S, n) == UNION {[1..k -> S] : k \in 0..n}

VolumeSeqs == SeqsUpTo(VolumeLevels, MaxLen)

\* the parameter values the solver is given to move among: alpha 0, 0.2, 1
AlphaGrid == {0, 1, AlphaDen}
MuGrid == {0, 1, 2}
EpsilonGrid == {0, 1}

----------------------------------------------------------------------------
(* pin_measure.py *)

Params(a, m, eb, es) == [alpha |-> a, mu |-> m, epsilon_b |-> eb, epsilon_s |-> es]

\* params_init = np.array([0.2, 1, 1, 1])
params_init == Params(1, 1, 1, 1)

\* bnds = ((0, 1), (0, None), (0, None), (0, None))
bnds(p) ==
    /\ 0 <= p.alpha /\ p.alpha <= AlphaDen
    /\ 0 <= p.mu
    /\ 0 <= p.epsilon_b
    /\ 0 <= p.epsilon_s

Box == {p \in [alpha : AlphaGrid, mu : MuGrid, epsilon_b : EpsilonGrid,
               epsilon_s : EpsilonGrid] : bnds(p)}

NoParams == Params(-1, -1, -1, -1)
NoValue == [kind |-> "none", num |-> -1, den |-> -1]
NoEval == [periods |-> 0, cls |-> "none"]
NoResult == [x |-> NoParams, success |-> FALSE]

Min(a, b) == IF a <= b THEN a ELSE b

\* SkipPeriod with a fault: the guard forgets epsilon_s
SkipPeriodNoEpsS(p) == p.alpha = 0 \/ p.mu = 0 \/ p.epsilon_b = 0

\* if alpha == 0 or mu == 0 or epsilon_b == 0 or epsilon_s == 0: continue
SkipPeriod(p) == p.alpha = 0 \/ p.mu = 0 \/ p.epsilon_b = 0 \/ p.epsilon_s = 0

\* exp(-rate) * rate ** k / exp(gammaln(k + 1)) is 0 exactly when
\* rate = 0 and k > 0 (0 ** 0 = 1), and positive otherwise
PoissonIsZero(rate, k) == rate = 0 /\ k > 0

\* alpha*(term1*term2 + term3*term4) + (1 - alpha)*(term3*term2) = 0
MixtureIsZero(p, b, s) ==
    LET term1 == PoissonIsZero(p.mu + p.epsilon_b, b)
        term2 == PoissonIsZero(p.epsilon_s, s)
        term3 == PoissonIsZero(p.epsilon_b, b)
        term4 == PoissonIsZero(p.mu + p.epsilon_s, s)
    IN  /\ p.alpha = 0 \/ ((term1 \/ term2) /\ (term3 \/ term4))
        /\ p.alpha = AlphaDen \/ term3 \/ term2

\* the loop over zip(buys, sells), periods 1..n: how many periods had their
\* terms, divisions and log evaluated, and whether a log(0) was added
RECURSIVE LogLikelihood(_, _, _, _)
LogLikelihood(p, buys, sells, n) ==
    IF n = 0 THEN [periods |-> 0, neginf |-> FALSE]
    ELSE LET ll == LogLikelihood(p, buys, sells, n - 1)
         IN  IF SkipPeriod(p) THEN ll
             ELSE [periods |-> ll.periods + 1,
                   neginf |-> ll.neginf \/ MixtureIsZero(p, buys[n], sells[n])]

\* zip stops at the shorter of the two arrays
neg_log_likelihood(p, buys, sells) ==
    LET ll == LogLikelihood(p, buys, sells, Min(Len(buys), Len(sells)))
    IN  [periods |-> ll.periods,
         cls |-> IF ll.periods = 0 THEN "zero"
                 ELSE IF ll.neginf THEN "inf" ELSE "finite"]

\* PinNumerator with a fault: alpha is forgotten in the numerator
PinNumeratorNoAlpha(x) == AlphaDen * x.mu

\* alpha_hat * mu_hat, in units of 1/AlphaDen
PinNumerator(x) == x.alpha * x.mu

\* alpha_hat * mu_hat + epsilon_b_hat + epsilon_s_hat, in units of 1/AlphaDen
PinDenominator(x) == x.alpha * x.mu + AlphaDen * (x.epsilon_b + x.epsilon_s)

\* pin = alpha_hat * mu_hat / (alpha_hat * mu_hat + epsilon_b_hat + epsilon_s_hat)
\* on np.float64: x / 0.0 is nan for x = 0 and inf for x > 0, no exception
PinValue(x) ==
    IF PinDenominator(x) = 0
    THEN [kind |-> "value", num |-> IF PinNumerator(x) = 0 THEN 0 ELSE 1, den |-> 0]
    ELSE [kind |-> "value", num |-> PinNumerator(x), den |-> PinDenominator(x)]

\* Frame with a fault: the locals live in one module-level namespace
SharedFrame(t) == 1

\* each invocation of pin_ekop has its own locals and its own closure
Frame(t) == t

EmptyFrame ==
    [buys |-> <<>>, sells |-> <<>>, params_init |-> NoParams, runs |-> 0,
     x0 |-> NoParams, nfev |-> 0, probe |-> NoParams, fval |-> NoEval,
     result |-> NoResult]

\* AfterMinimize with a fault: a run that did not converge is started again
RetryUnlessConverged(success) == IF success THEN "derive" ELSE "minimize"

\* result = minimize(...) is followed by the extraction of result.x,
\* whatever result.success says
AfterMinimize(success) == "derive"

\* def pin_ekop(buys, sells): the arguments are bound as they come (no
\* check of their lengths), then params_init and bnds are set
Call(t) ==
    /\ pc[t] = "idle"
    /\ frame' = [frame EXCEPT ![Frame(t)] =
                   [EmptyFrame EXCEPT !.buys = arg[t][1], !.sells = arg[t][2],
                                      !.params_init = params_init]]
    /\ pc' = [pc EXCEPT ![t] = "minimize"]
    /\ UNCHANGED <<callers, arg, ret, lbfgsb, dirVars>>

\* minimize(neg_log_likelihood, params_init, args=(buys, sells), ...):
\* a run starts and evaluates the objective at its starting point
Minimize(t) ==
    /\ pc[t] = "minimize"
    /\ LET f == frame[Frame(t)]
       IN  frame' = [frame EXCEPT ![Frame(t)] =
                       [f EXCEPT !.runs = f.runs + 1,
                                 !.x0 = f.params_init,
                                 !.nfev = 1,
                                 !.probe = f.params_init,
                                 !.fval = neg_log_likelihood(f.params_init,
                                                             f.buys, f.sells)]]
    /\ pc' = [pc EXCEPT ![t] = "solving"]
    /\ UNCHANGED <<callers, arg, ret, lbfgsb, dirVars>>

\* the solver evaluates the objective at another point of the box
Probe(t) ==
    /\ pc[t] = "solving"
    /\ frame[Frame(t)].nfev < MaxEvals
    /\ \E p \in Box :
         LET f == frame[Frame(t)]
         IN  frame' = [frame EXCEPT ![Frame(t)] =
                         [f EXCEPT !.nfev = f.nfev + 1,
                                   !.probe = p,
                                   !.fval = neg_log_likelihood(p, f.buys, f.sells)]]
    /\ UNCHANGED <<callers, pc, arg, ret, lbfgsb, dirVars>>

\* the solver terminates, converged or not, and returns a point of the box:
\* the same point as every other run on the same volume arrays
Converge(t) ==
    /\ pc[t] = "solving"
    /\ LET f == frame[Frame(t)]
           key == <<f.buys, f.sells>>
       IN  \E x \in Box, success \in BOOLEAN :
             /\ key \in DOMAIN lbfgsb => x = lbfgsb[key]
             /\ lbfgsb' = IF key \in DOMAIN lbfgsb THEN lbfgsb
                          ELSE lbfgsb @@ (key :> x)
             /\ frame' = [frame EXCEPT ![Frame(t)] =
                            [f EXCEPT !.nfev = 0, !.probe = NoParams,
                                      !.fval = NoEval,
                                      !.result = [x |-> x, success |-> success]]]
             /\ pc' = [pc EXCEPT ![t] = AfterMinimize(success)]
    /\ UNCHANGED <<callers, arg, ret, dirVars>>

\* alpha_hat, ... = result.x; pin = ...; return pin
Derive(t) ==
    /\ pc[t] = "derive"
    /\ ret' = [ret EXCEPT ![t] = PinValue(frame[Frame(t)].result.x)]
    /\ pc' = [pc EXCEPT ![t] = "done"]
    /\ UNCHANGED <<callers, arg, frame, lbfgsb, dirVars>>

DirOff ==
    /\ prices = <<>> /\ bids = <<>> /\ asks = <<>>
    /\ dpc = "off" /\ direction = <<>> /\ raised = "none"

NoArgs == <<<<>>, <<>>>>

\* the threads in who are about to call pin_ekop, each with arguments of work
PinInit(who, work) ==
    /\ callers = who
    /\ arg \in {a \in [Threads -> work \cup {NoArgs}] :
                   \A t \in Threads : IF t \in who THEN a[t] \in work
                                                   ELSE a[t] = NoArgs}
    /\ pc = [t \in Threads |-> "idle"]
    /\ frame = [t \in Threads |-> EmptyFrame]
    /\ ret = [t \in Threads |-> NoValue]
    /\ lbfgsb = <<>>

\* one caller, any pair of volume arrays
Init == PinInit({1}, VolumeSeqs \X VolumeSeqs) /\ DirOff

\* two callers on separate threads, each passing one of two volume inputs
ThreadWorkload == {<<<<5>>, <<0>>>>, <<<<0, 5>>, <<5, 5>>>>}

InitThreads == PinInit(Threads, ThreadWorkload) /\ DirOff

Next ==
    \/ \E t \in callers : Call(t)
    \/ \E t \in callers : Minimize(t)
    \/ \E t \in callers : Probe(t)
    \/ \E t \in callers : Converge(t)
    \/ \E t \in callers : Derive(t)

Spec == Init /\ [][Next]_vars

SpecThreads == InitThreads /\ [][Next]_vars

----------------------------------------------------------------------------
(* trade_direction.py.  Python index i is element i + 1 of a sequence. *)

At(a, i) == a[i + 1]

Zeros(n) == [k \in 1..n |-> 0]

\* ZeroTick with a fault: two consecutive zero ticks do not propagate
ZeroTickNoPropagate(p, i, dir) ==
    IF i >= 2
    THEN IF At(p, i - 1) > At(p, i - 2) THEN 1
         ELSE IF At(p, i - 1) < At(p, i - 2) THEN -1
         ELSE 0
    ELSE At(dir, i - 1)

\* the else branch of the loop (prices[i] == prices[i - 1]); dir is the
\* direction array as the earlier iterations left it
ZeroTick(p, i, dir) ==
    IF i >= 2
    THEN IF At(p, i - 1) > At(p, i - 2) THEN 1
         ELSE IF At(p, i - 1) < At(p, i - 2) THEN -1
         ELSE At(dir, i - 1)
    ELSE At(dir, i - 1)

\* the direction array after the iterations 1..i of for i in range(1, n)
RECURSIVE TickLoop(_, _)
TickLoop(p, i) ==
    IF i = 0 THEN Zeros(Len(p))
    ELSE LET dir == TickLoop(p, i - 1)
             d == IF At(p, i) > At(p, i - 1) THEN 1
                  ELSE IF At(p, i) < At(p, i - 1) THEN -1
                  ELSE ZeroTick(p, i, dir)
         IN  [dir EXCEPT ![i + 1] = d]

\* tick_direction on a non-empty array: the loop, then direction[0] = 0
tick_direction(p) == [TickLoop(p, Len(p) - 1) EXCEPT ![1] = 0]

\* mid_prices = (bids + asks) / 2, held doubled to stay in the integers
mid_prices2(b, a) == [k \in 1..Len(b) |-> b[k] + a[k]]

\* QuoteRule with a fault: a trade at the midpoint is left at 0
QuoteRuleNoTick(price, mid2, tick) ==
    IF 2 * price > mid2 THEN 1
    ELSE IF 2 * price < mid2 THEN -1
    ELSE 0

\* QuoteRule with a fault: the two sides are swapped
QuoteRuleSwapped(price, mid2, tick) ==
    IF 2 * price > mid2 THEN -1
    ELSE IF 2 * price < mid2 THEN 1
    ELSE tick

\* the body of for i in range(n): price against the midpoint, else the tick
QuoteRule(price, mid2, tick) ==
    IF 2 * price > mid2 THEN 1
    ELSE IF 2 * price < mid2 THEN -1
    ELSE tick

\* lee_ready_direction on non-empty arrays of one length
lee_ready_direction(p, b, a) ==
    LET mid2 == mid_prices2(b, a)
        tick_directions == tick_direction(p)
    IN  [k \in 1..Len(p) |-> QuoteRule(p[k], mid2[k], tick_directions[k])]

\* a call of tick_direction(prices)
TickTest ==
    /\ dpc = "input"
    /\ IF Len(prices) = 0
       THEN raised' = "ValueError" /\ direction' = <<>>
       ELSE raised' = "none" /\ direction' = tick_direction(prices)
    /\ dpc' = "tick"
    /\ UNCHANGED <<prices, bids, asks, pinVars>>

\* a call of lee_ready_direction(prices, bids, asks)
LeeReady ==
    /\ dpc = "input"
    /\ IF Len(prices) = 0 \/ Len(bids) = 0 \/ Len(asks) = 0
       THEN raised' = "ValueError" /\ direction' = <<>>
       ELSE IF ~(Len(prices) = Len(bids) /\ Len(bids) = Len(asks))
       THEN raised' = "ValueError" /\ direction' = <<>>
       ELSE raised' = "none" /\ direction' = lee_ready_direction(prices, bids, asks)
    /\ dpc' = "leeready"
    /\ UNCHANGED <<prices, bids, asks, pinVars>>

InitDirection ==
    /\ PinInit({}, {})
    /\ prices \in SeqsUpTo(PriceLevels, MaxTicks)
    /\ bids \in SeqsUpTo(QuoteLevels, MaxQuotes)
    /\ asks \in SeqsUpTo(QuoteLevels, MaxQuotes)
    /\ dpc = "input"
    /\ direction = <<>>
    /\ raised = "none"

NextDirection == TickTest \/ LeeReady

SpecDirection == InitDirection /\ [][NextDirection]_vars

----------------------------------------------------------------------------
(* Properties *)

InvalidInput(in) == Len(in[1]) # Len(in[2]) \/ Len(in[1]) = 0 \/ Len(in[2]) = 0

AnyZero(p) == p.alpha = 0 \/ p.mu = 0 \/ p.epsilon_b = 0 \/ p.epsilon_s = 0

Started(t) == pc[t] \in {"solving", "derive", "done"}

\* C1: a call with buy and sell arrays of unequal length, or with an empty
\* array, ends in InvalidInputError, and no optimization run is started and
\* the likelihood is not evaluated for it.
C1_InvalidInputRaisedBeforeOptimizing ==
    \A t \in callers :
        (pc[t] # "idle" /\ InvalidInput(arg[t])) =>
            /\ frame[Frame(t)].runs = 0
            /\ frame[Frame(t)].nfev = 0
            /\ ~Started(t) \/ ret[t].kind = "InvalidInputError"

\* C2: a call whose fitted parameters have alpha*mu + epsilon_b + epsilon_s
\* = 0 ends in EstimationDegenerateError, not in a value.
C2_DegenerateFitIsFatal ==
    \A t \in callers :
        LET x == frame[Frame(t)].result.x
        IN  (pc[t] = "done" /\ ~InvalidInput(arg[t])
             /\ x.alpha * x.mu + AlphaDen * (x.epsilon_b + x.epsilon_s) = 0) =>
                ret[t].kind = "EstimationDegenerateError"

\* C3: whenever the likelihood is evaluated at a parameter vector with a
\* component that is exactly 0, every period is skipped: no term, division
\* or log is evaluated and the value returned is 0, whatever the arrays.
C3_ZeroParameterSkipsEveryPeriod ==
    \A t \in callers :
        LET f == frame[Frame(t)]
        IN  (pc[t] = "solving" /\ AnyZero(f.probe)) =>
                f.fval = [periods |-> 0, cls |-> "zero"]

C3_Witness ==
    \E t \in callers :
        LET f == frame[Frame(t)]
        IN  /\ pc[t] = "solving"
            /\ f.probe.epsilon_s = 0 /\ f.probe.alpha # 0
            /\ Len(f.buys) = MaxLen /\ Len(f.sells) = MaxLen
            /\ f.sells[1] > 0
            /\ f.fval.cls = "zero"

\* C4: a call whose fitted parameters lie in the box and have a nonzero
\* denominator returns alpha*mu / (alpha*mu + epsilon_b + epsilon_s), and
\* that value lies in [0, 1].
C4_PinIsTheRatioAndInUnitInterval ==
    \A t \in callers :
        LET x == frame[Frame(t)].result.x
            am == x.alpha * x.mu
            d == x.alpha * x.mu + AlphaDen * (x.epsilon_b + x.epsilon_s)
        IN  (pc[t] = "done" /\ bnds(x) /\ d # 0) =>
                /\ ret[t].kind = "value"
                /\ ret[t].den > 0
                /\ ret[t].num * d = am * ret[t].den
                /\ 0 <= ret[t].num /\ ret[t].num <= ret[t].den

C4_Witness ==
    \E t \in callers :
        /\ pc[t] = "done"
        /\ frame[Frame(t)].result.x.epsilon_b > 0
        /\ 0 < ret[t].num /\ ret[t].num < ret[t].den

\* C5: a call starts one optimization run, from (0.2, 1, 1, 1), never a
\* second one whether or not the run converged, and returns the value
\* derived from the vector that run returned.
C5_OneRunFromTheFixedGuess ==
    \A t \in callers :
        LET f == frame[Frame(t)]
        IN  /\ f.runs <= 1
            /\ Started(t) =>
                   /\ f.runs = 1
                   /\ f.x0.alpha * 10 = 2 * AlphaDen
                   /\ f.x0.mu = 1 /\ f.x0.epsilon_b = 1 /\ f.x0.epsilon_s = 1
            /\ pc[t] = "done" =>
                   /\ f.result.x \in Box
                   /\ ret[t] = PinValue(f.result.x)

C5_Witness ==
    \E t \in callers :
        /\ pc[t] = "done"
        /\ ~frame[Frame(t)].result.success
        /\ frame[Frame(t)].runs = 1
        /\ ret[t].kind = "value"

\* C6: whatever the other thread does and has done, a finished call has
\* returned what the solver's answer for its own buys and sells gives, so
\* two calls with the same arrays have returned the same value.
C6_CallsDoNotInterfere ==
    /\ \A t \in callers :
           pc[t] = "done" =>
               /\ arg[t] \in DOMAIN lbfgsb
               /\ ret[t] = PinValue(lbfgsb[arg[t]])
    /\ \A t, u \in callers :
           (pc[t] = "done" /\ pc[u] = "done" /\ arg[t] = arg[u]) => ret[t] = ret[u]

C6_Witness ==
    /\ pc[1] = "done" /\ pc[2] = "done"
    /\ arg[1] # arg[2]
    /\ ret[1] # ret[2]

Sign(d) == IF d > 0 THEN 1 ELSE IF d < 0 THEN -1 ELSE 0

\* the indices j in 2..k at which the price changed
Changes(p, k) == {j \in 2..k : p[j] # p[j - 1]}

\* the sign of the most recent nonzero price change at or before element k
LastChange(p, k) ==
    IF Changes(p, k) = {} THEN 0
    ELSE LET j == CHOOSE c \in Changes(p, k) : \A e \in Changes(p, k) : e <= c
         IN  Sign(p[j] - p[j - 1])

\* C7: tick_direction of a non-empty array has the array's length, 0 first,
\* then 1 on an uptick, -1 on a downtick, and on a zero tick the sign of the
\* most recent nonzero price change (0 when there has been none).
C7_TickFollowsLastPriceChange ==
    (dpc = "tick" /\ Len(prices) > 0) =>
        /\ raised = "none"
        /\ Len(direction) = Len(prices)
        /\ direction[1] = 0
        /\ \A k \in 2..Len(prices) :
               direction[k] = IF prices[k] > prices[k - 1] THEN 1
                              ELSE IF prices[k] < prices[k - 1] THEN -1
                              ELSE LastChange(prices, k - 1)

C7_Witness ==
    /\ dpc = "tick"
    /\ Len(prices) = 4
    /\ prices[1] > prices[2] /\ prices[2] = prices[3] /\ prices[3] = prices[4]
    /\ direction[4] = -1

ValidQuotes ==
    /\ Len(prices) > 0
    /\ Len(prices) = Len(bids)
    /\ Len(prices) = Len(asks)

C9_QuoteRuleThenTickTest ==
    (dpc = "leeready" /\ ValidQuotes) =>
        /\ raised = "none"
        /\ Len(direction) = Len(prices)
        /\ \A k \in 1..Len(prices) :
               /\ 2 * prices[k] > bids[k] + asks[k] => direction[k] = 1
               /\ 2 * prices[k] < bids[k] + asks[k] => direction[k] = -1
               /\ 2 * prices[k] = bids[k] + asks[k] =>
                      direction[k] = tick_direction(prices)[k]

C9_Witness ==
    /\ dpc = "leeready" /\ ValidQuotes
    /\ Len(direction) = 3
    /\ 2 * prices[1] > bids[1] + asks[1]
    /\ 2 * prices[2] < bids[2] + asks[2]
    /\ 2 * prices[3] = bids[3] + asks[3]
    /\ direction[3] = -1

====
